---- MODULE Spec2Model ----
(***************************************************************************)
(* Model of gridgame/model.py: GridGameModel (turn order, move validation, *)
(* terminal state) and TicTacToeWinValidator (rows, columns, diagonals).   *)
(* Field (gridgame/project_types.py) is modelled from its contract.        *)
(***************************************************************************)
EXTENDS FiniteSets, Integers, Sequences, TLC

\* ------------------------------------------------------------------ bounds
\* grid sizes explored: the one-cell grid and the smallest grid with distinct lines
GridSizes == 1..2
MaxPlayers == 4
\* how far outside [1, grid_size] the cell coordinates passed by callers reach
Outside == 1

\* Symbols are opaque comparable values; AllSymbols is the pool they are drawn from.
AllSymbols == <<"X", "O", "A", "B", "C", "D", "E", "F">>

None == "None"
\* PlayerId is a positive integer; NoPlayer stands for the None of `PlayerId | None`.
NoPlayer == 0

VARIABLES
    field,             \* self._field: [grid_size, occupied_cells]
    move_history,      \* self._move_history: sequence of GridGameMove
    player_count,      \* self._player_count
    player_to_symbol,  \* self._player_to_symbol
    symbol_to_player,  \* self._symbol_to_player
    current_player,    \* self._current_player
    call,              \* the last public call and its arguments
    feedback,          \* what the last place_symbol call returned (or raised)
    got_winner,        \* what the last direct get_winner call returned
    pc,                \* the line of place_symbol a call in progress has reached
    seen               \* what a reader of the present state was given

vars == <<field, move_history, player_count, player_to_symbol, symbol_to_player,
          current_player, call, feedback, got_winner, pc, seen>>

Range(s) == {s[i] : i \in DOMAIN s}

\* ------------------------------------------------------------------ types
GridGameMove(player, symbol, cell) ==
    [player |-> player, symbol |-> symbol, cell |-> cell]

Cell(row, col) == <<row, col>>

VALID == "VALID"
GAME_OVER == "GAME_OVER"
INVALID_SYMBOL == "INVALID_SYMBOL"
OUT_OF_BOUNDS == "OUT_OF_BOUNDS"
OCCUPIED == "OCCUPIED"
Feedback == {VALID, GAME_OVER, INVALID_SYMBOL, OUT_OF_BOUNDS, OCCUPIED}

AssertionError == "AssertionError"
ValueError == "ValueError"

\* ------------------------------------------------------------------ Field
Field(grid_size) ==
    [grid_size |-> grid_size, occupied_cells |-> <<>>]

valid_coords(f) == [k \in 1..f.grid_size |-> k]

is_within_bounds(f, cell) ==
    /\ cell[1] >= 1 /\ cell[1] <= f.grid_size
    /\ cell[2] >= 1 /\ cell[2] <= f.grid_size

get_symbol_at(f, cell) ==
    IF cell \in DOMAIN f.occupied_cells THEN f.occupied_cells[cell] ELSE None

Field_place_symbol(f, symbol, cell) ==
    [f EXCEPT !.occupied_cells =
        [c \in (DOMAIN f.occupied_cells) \cup {cell} |->
            IF c = cell THEN symbol ELSE f.occupied_cells[c]]]

are_all_equal_to_basis(f, basis, group) ==
    \A i \in DOMAIN group : get_symbol_at(f, group[i]) = basis

has_unoccupied_cell(f) ==
    \E r \in 1..f.grid_size : \E c \in 1..f.grid_size :
        Cell(r, c) \notin DOMAIN f.occupied_cells

\* ------------------------------------------------------------------ TicTacToeWinValidator
rows(f) ==
    [row \in 1..f.grid_size |-> [k \in 1..f.grid_size |-> Cell(row, k)]]

columns(f) ==
    [col \in 1..f.grid_size |-> [k \in 1..f.grid_size |-> Cell(k, col)]]

backslash(f) ==
    [k \in 1..f.grid_size |-> Cell(k, k)]

forward_slash(f) ==
    [k \in 1..f.grid_size |-> Cell(k, f.grid_size - k + 1)]

\* mutant: the forward-slash diagonal is left out
diagonals_backslash_only(f) == <<backslash(f)>>

\* mutant: the two diagonals are yielded in the other order
diagonals_forward_first(f) == <<forward_slash(f), backslash(f)>>

diagonals(f) == <<backslash(f), forward_slash(f)>>

\* the generator's output depends on the grid size alone: one list per size
\* (the sizes of GridSizes, and the 3 x 3 grid of the classic game)
groups_by_size ==
    [n \in GridSizes \cup {3} |->
        rows([grid_size |-> n]) \o columns([grid_size |-> n]) \o diagonals([grid_size |-> n])]

_get_groups(f) == groups_by_size[f.grid_size]

\* for move in reversed(move_history): ... else: assert False
RECURSIVE scan_history(_, _, _, _)
scan_history(history, j, group, basis) ==
    IF j = 0
    THEN [raised |-> TRUE, player |-> NoPlayer]
    ELSE IF history[j].cell \in Range(group) /\ history[j].symbol = basis
         THEN [raised |-> FALSE, player |-> history[j].player]
         ELSE scan_history(history, j - 1, group, basis)

\* for group in self._get_groups(field): ... else: return None
RECURSIVE scan_groups(_, _, _, _)
scan_groups(f, history, groups, i) ==
    IF i > Len(groups)
    THEN [raised |-> FALSE, player |-> NoPlayer]
    ELSE LET group == groups[i]
             basis == get_symbol_at(f, group[1])
         IN  IF basis # None /\ are_all_equal_to_basis(f, basis, group)
             THEN scan_history(history, Len(history), group, basis)
             ELSE scan_groups(f, history, groups, i + 1)

get_winner(f, history) == scan_groups(f, history, _get_groups(f), 1)

\* ------------------------------------------------------------------ GridGameModel
\* mutant: the number of symbols is not compared with player_count
init_error_no_length_check(player_symbols, count) ==
    IF count <= 1 THEN ValueError
    ELSE IF Cardinality(Range(player_symbols)) # Len(player_symbols) THEN ValueError
    ELSE ""

\* The three checks of __init__; "" when construction goes through.
init_error(player_symbols, count) ==
    IF count <= 1 THEN ValueError
    ELSE IF Cardinality(Range(player_symbols)) # Len(player_symbols) THEN ValueError
    ELSE IF Len(player_symbols) # count THEN ValueError
    ELSE ""

init_model(grid_size, player_symbols, count) ==
    [field |-> Field(grid_size),
     move_history |-> <<>>,
     player_count |-> count,
     player_to_symbol |-> [k \in 1..Len(player_symbols) |-> player_symbols[k]],
     symbol_to_player |->
        [s \in Range(player_symbols) |->
            CHOOSE k \in 1..Len(player_symbols) : player_symbols[k] = s],
     current_player |-> 1]

\* mutant: a full field without a winner is not reported as over
is_game_over_winner_only(self) ==
    LET w == get_winner(self.field, self.move_history)
    IN  IF w.raised
        THEN [raised |-> TRUE, value |-> FALSE]
        ELSE [raised |-> FALSE, value |-> w.player # NoPlayer]

\* mutant: no wrap to player 1 after the last player
next_player_no_wrap(self) == self.current_player + 1

\* mutant: the turn is not passed on
_switch_to_next_player_stays(self) == self

winner(self) == get_winner(self.field, self.move_history)

is_game_over(self) ==
    LET w == winner(self)
    IN  IF w.raised
        THEN [raised |-> TRUE, value |-> FALSE]
        ELSE [raised |-> FALSE,
              value |-> w.player # NoPlayer \/ ~has_unoccupied_cell(self.field)]

next_player(self) ==
    IF self.current_player # self.player_count THEN self.current_player + 1 ELSE 1

\* [raised, choices]: ValueError for a player outside the mapping
get_symbol_choices(self, player) ==
    IF player \notin DOMAIN self.player_to_symbol
    THEN [raised |-> TRUE, choices |-> <<>>]
    ELSE [raised |-> FALSE, choices |-> <<self.player_to_symbol[player]>>]

_switch_to_next_player(self) ==
    [self EXCEPT !.current_player = next_player(self)]

\* mutant: the bounds check comes before the symbol check
place_symbol_bounds_first(self, symbol, cell) ==
    LET over == is_game_over(self)
        choices == get_symbol_choices(self, self.current_player)
    IN  IF over.raised THEN [result |-> AssertionError, self |-> self]
        ELSE IF over.value THEN [result |-> GAME_OVER, self |-> self]
        ELSE IF choices.raised THEN [result |-> ValueError, self |-> self]
        ELSE IF ~is_within_bounds(self.field, cell)
            THEN [result |-> OUT_OF_BOUNDS, self |-> self]
        ELSE IF symbol \notin Range(choices.choices)
            THEN [result |-> INVALID_SYMBOL, self |-> self]
        ELSE IF get_symbol_at(self.field, cell) # None
            THEN [result |-> OCCUPIED, self |-> self]
        ELSE [result |-> VALID,
              self |-> _switch_to_next_player(
                  [self EXCEPT
                      !.field = Field_place_symbol(self.field, symbol, cell),
                      !.move_history = Append(self.move_history,
                          GridGameMove(self.current_player, symbol, cell))])]

\* mutant: a wrong symbol costs the player the turn
place_symbol_skips_turn(self, symbol, cell) ==
    LET over == is_game_over(self)
        choices == get_symbol_choices(self, self.current_player)
    IN  IF over.raised THEN [result |-> AssertionError, self |-> self]
        ELSE IF over.value THEN [result |-> GAME_OVER, self |-> self]
        ELSE IF choices.raised THEN [result |-> ValueError, self |-> self]
        ELSE IF symbol \notin Range(choices.choices)
            THEN [result |-> INVALID_SYMBOL, self |-> _switch_to_next_player(self)]
        ELSE IF ~is_within_bounds(self.field, cell)
            THEN [result |-> OUT_OF_BOUNDS, self |-> self]
        ELSE IF get_symbol_at(self.field, cell) # None
            THEN [result |-> OCCUPIED, self |-> self]
        ELSE [result |-> VALID,
              self |-> _switch_to_next_player(
                  [self EXCEPT
                      !.field = Field_place_symbol(self.field, symbol, cell),
                      !.move_history = Append(self.move_history,
                          GridGameMove(self.current_player, symbol, cell))])]

\* mutant: the game-over check is missing
place_symbol_no_game_over_check(self, symbol, cell) ==
    LET over == is_game_over(self)
        choices == get_symbol_choices(self, self.current_player)
    IN  IF over.raised THEN [result |-> AssertionError, self |-> self]
        ELSE IF choices.raised THEN [result |-> ValueError, self |-> self]
        ELSE IF symbol \notin Range(choices.choices)
            THEN [result |-> INVALID_SYMBOL, self |-> self]
        ELSE IF ~is_within_bounds(self.field, cell)
            THEN [result |-> OUT_OF_BOUNDS, self |-> self]
        ELSE IF get_symbol_at(self.field, cell) # None
            THEN [result |-> OCCUPIED, self |-> self]
        ELSE [result |-> VALID,
              self |-> _switch_to_next_player(
                  [self EXCEPT
                      !.field = Field_place_symbol(self.field, symbol, cell),
                      !.move_history = Append(self.move_history,
                          GridGameMove(self.current_player, symbol, cell))])]

\* mutant: the move is not appended to the history
place_symbol_no_history(self, symbol, cell) ==
    LET over == is_game_over(self)
        choices == get_symbol_choices(self, self.current_player)
    IN  IF over.raised THEN [result |-> AssertionError, self |-> self]
        ELSE IF over.value THEN [result |-> GAME_OVER, self |-> self]
        ELSE IF choices.raised THEN [result |-> ValueError, self |-> self]
        ELSE IF symbol \notin Range(choices.choices)
            THEN [result |-> INVALID_SYMBOL, self |-> self]
        ELSE IF ~is_within_bounds(self.field, cell)
            THEN [result |-> OUT_OF_BOUNDS, self |-> self]
        ELSE IF get_symbol_at(self.field, cell) # None
            THEN [result |-> OCCUPIED, self |-> self]
        ELSE [result |-> VALID,
              self |-> _switch_to_next_player(
                  [self EXCEPT
                      !.field = Field_place_symbol(self.field, symbol, cell)])]

\* mutant: the occupancy check is missing
place_symbol_no_occupied_check(self, symbol, cell) ==
    LET over == is_game_over(self)
        choices == get_symbol_choices(self, self.current_player)
    IN  IF over.raised THEN [result |-> AssertionError, self |-> self]
        ELSE IF over.value THEN [result |-> GAME_OVER, self |-> self]
        ELSE IF choices.raised THEN [result |-> ValueError, self |-> self]
        ELSE IF symbol \notin Range(choices.choices)
            THEN [result |-> INVALID_SYMBOL, self |-> self]
        ELSE IF ~is_within_bounds(self.field, cell)
            THEN [result |-> OUT_OF_BOUNDS, self |-> self]
        ELSE [result |-> VALID,
              self |-> _switch_to_next_player(
                  [self EXCEPT
                      !.field = Field_place_symbol(self.field, symbol, cell),
                      !.move_history = Append(self.move_history,
                          GridGameMove(self.current_player, symbol, cell))])]

\* mutant: the turn is passed on before the move is recorded
place_symbol_switch_before_append(self, symbol, cell) ==
    LET over == is_game_over(self)
        choices == get_symbol_choices(self, self.current_player)
    IN  IF over.raised THEN [result |-> AssertionError, self |-> self]
        ELSE IF over.value THEN [result |-> GAME_OVER, self |-> self]
        ELSE IF choices.raised THEN [result |-> ValueError, self |-> self]
        ELSE IF symbol \notin Range(choices.choices)
            THEN [result |-> INVALID_SYMBOL, self |-> self]
        ELSE IF ~is_within_bounds(self.field, cell)
            THEN [result |-> OUT_OF_BOUNDS, self |-> self]
        ELSE IF get_symbol_at(self.field, cell) # None
            THEN [result |-> OCCUPIED, self |-> self]
        ELSE [result |-> VALID,
              self |-> _switch_to_next_player(
                  [self EXCEPT
                      !.field = Field_place_symbol(self.field, symbol, cell),
                      !.move_history = Append(self.move_history,
                          GridGameMove(next_player(self), symbol, cell))])]

\* [result, self]: the Feedback returned (or the exception raised) and the model afterwards
place_symbol(self, symbol, cell) ==
    LET over == is_game_over(self)
        choices == get_symbol_choices(self, self.current_player)
    IN  IF over.raised THEN [result |-> AssertionError, self |-> self]
        ELSE IF over.value THEN [result |-> GAME_OVER, self |-> self]
        ELSE IF choices.raised THEN [result |-> ValueError, self |-> self]
        ELSE IF symbol \notin Range(choices.choices)
            THEN [result |-> INVALID_SYMBOL, self |-> self]
        ELSE IF ~is_within_bounds(self.field, cell)
            THEN [result |-> OUT_OF_BOUNDS, self |-> self]
        ELSE IF get_symbol_at(self.field, cell) # None
            THEN [result |-> OCCUPIED, self |-> self]
        ELSE [result |-> VALID,
              self |-> _switch_to_next_player(
                  [self EXCEPT
                      !.field = Field_place_symbol(self.field, symbol, cell),
                      !.move_history = Append(self.move_history,
                          GridGameMove(self.current_player, symbol, cell))])]

\* ------------------------------------------------------------------ state machine
Self ==
    [field |-> field,
     move_history |-> move_history,
     player_count |-> player_count,
     player_to_symbol |-> player_to_symbol,
     symbol_to_player |-> symbol_to_player,
     current_player |-> current_player]

NoCall == [op |-> "none", symbol |-> None, cell |-> Cell(0, 0)]

NotSeen == [read |-> FALSE]

SetSelf(m) ==
    /\ field' = m.field
    /\ move_history' = m.move_history
    /\ player_count' = m.player_count
    /\ player_to_symbol' = m.player_to_symbol
    /\ symbol_to_player' = m.symbol_to_player
    /\ current_player' = m.current_player

\* The symbols and cells callers pass: every player's symbol and one nobody owns;
\* every cell of the grid and the cells up to Outside beyond each edge.
SymbolInputs == {AllSymbols[i] : i \in 1..(player_count + 1)}

GridCells == {Cell(r, c) : r \in 1..field.grid_size, c \in 1..field.grid_size}

OutsideCells ==
    UNION {{Cell(1 - k, 1), Cell(field.grid_size + k, 1), Cell(1, 1 - k),
            Cell(1, field.grid_size + k), Cell(1 - k, field.grid_size + k)} :
           k \in 1..Outside}

CellInputs == GridCells \cup OutsideCells

Init ==
    \E grid_size \in GridSizes, count \in 2..MaxPlayers :
        LET player_symbols == SubSeq(AllSymbols, 1, count)
            m == init_model(grid_size, player_symbols, count)
        IN  /\ init_error(player_symbols, count) = ""
            /\ field = m.field
            /\ move_history = m.move_history
            /\ player_count = m.player_count
            /\ player_to_symbol = m.player_to_symbol
            /\ symbol_to_player = m.symbol_to_player
            /\ current_player = m.current_player
            /\ call = NoCall
            /\ feedback = "none"
            /\ got_winner = [raised |-> FALSE, player |-> NoPlayer]
            /\ pc = "idle"
            /\ seen = NotSeen

\* model.place_symbol(symbol, cell)
PlaceSymbol(symbol, cell) ==
    LET r == place_symbol(Self, symbol, cell)
    IN  /\ SetSelf(r.self)
        /\ call' = [op |-> "place_symbol", symbol |-> symbol, cell |-> cell]
        /\ feedback' = r.result
        /\ UNCHANGED <<got_winner, pc, seen>>

Next == \E symbol \in SymbolInputs, cell \in CellInputs : PlaceSymbol(symbol, cell)

Spec == Init /\ [][Next]_vars

\* ------------------------------------------------------------------ the validator on its own
\* TicTacToeWinValidator.get_winner is a function of the field and the history it is
\* handed.  Here a caller fills a Field cell by cell, in any order of players, recording
\* each placement as a GridGameMove of the symbol's owner, and asks get_winner.
FieldPut(symbol, cell) ==
    /\ symbol \in DOMAIN symbol_to_player
    /\ is_within_bounds(field, cell)
    /\ get_symbol_at(field, cell) = None
    /\ field' = Field_place_symbol(field, symbol, cell)
    /\ move_history' =
          Append(move_history, GridGameMove(symbol_to_player[symbol], symbol, cell))
    /\ call' = [op |-> "field_put", symbol |-> symbol, cell |-> cell]
    /\ UNCHANGED <<player_count, player_to_symbol, symbol_to_player, current_player,
                   feedback, got_winner, pc, seen>>

GetWinner ==
    /\ got_winner' = get_winner(field, move_history)
    /\ call' = [op |-> "get_winner", symbol |-> None, cell |-> Cell(0, 0)]
    /\ UNCHANGED <<field, move_history, player_count, player_to_symbol,
                   symbol_to_player, current_player, feedback, pc, seen>>

NextValidator ==
    \/ \E symbol \in SymbolInputs, cell \in CellInputs : FieldPut(symbol, cell)
    \/ GetWinner

SpecValidator == Init /\ [][NextValidator]_vars

\* ------------------------------------------------------------------ construction on its own
\* GridGameModel(grid_size, player_symbols, player_count, win_validator) with arguments
\* of every shape: too few players, repeated symbols, a count that differs from the
\* number of symbols.  Before the call returns there is no model.
NoModel ==
    [field |-> Field(0),
     move_history |-> <<>>,
     player_count |-> 0,
     player_to_symbol |-> <<>>,
     symbol_to_player |-> <<>>,
     current_player |-> 0]

SymbolPool == {AllSymbols[i] : i \in 1..MaxPlayers}

SymbolSequences == UNION {[1..n -> SymbolPool] : n \in 0..MaxPlayers}

InitConstruct ==
    \E grid_size \in GridSizes, player_symbols \in SymbolSequences, count \in 0..MaxPlayers :
        /\ call = [op |-> "__init__", grid_size |-> grid_size,
                    player_symbols |-> player_symbols, player_count |-> count]
        /\ feedback = "pending"
        /\ field = NoModel.field
        /\ move_history = NoModel.move_history
        /\ player_count = NoModel.player_count
        /\ player_to_symbol = NoModel.player_to_symbol
        /\ symbol_to_player = NoModel.symbol_to_player
        /\ current_player = NoModel.current_player
        /\ got_winner = [raised |-> FALSE, player |-> NoPlayer]
        /\ pc = "idle"
        /\ seen = NotSeen

\* GridGameModel.__init__: raise ValueError, or set the attributes
Construct ==
    /\ feedback = "pending"
    /\ LET error == init_error(call.player_symbols, call.player_count)
       IN  IF error # ""
           THEN /\ feedback' = error
                /\ UNCHANGED <<field, move_history, player_count, player_to_symbol,
                               symbol_to_player, current_player>>
           ELSE /\ feedback' = "constructed"
                /\ SetSelf(init_model(call.grid_size, call.player_symbols,
                                      call.player_count))
    /\ UNCHANGED <<call, got_winner, pc, seen>>

SpecConstruct == InitConstruct /\ [][Construct]_vars

\* ------------------------------------------------------------------ a reader beside the caller
\* place_symbol holds no lock.  Its three mutating statements (lines 138, 139, 140) are
\* taken one at a time here, and a second thread may read winner, is_game_over,
\* occupied_cells and current_player before, between and after them.
\* lines 126-138: the checks, and for an accepted move the placement on the field
BeginPlaceSymbol(symbol, cell) ==
    /\ pc = "idle"
    /\ call' = [op |-> "place_symbol", symbol |-> symbol, cell |-> cell]
    /\ IF place_symbol(Self, symbol, cell).result # VALID
       THEN /\ feedback' = place_symbol(Self, symbol, cell).result
            /\ pc' = "idle"
            /\ UNCHANGED field
       ELSE /\ feedback' = "pending"
            /\ pc' = "138"
            /\ field' = Field_place_symbol(field, symbol, cell)
    /\ seen' = NotSeen
    /\ UNCHANGED <<move_history, player_count, player_to_symbol, symbol_to_player,
                   current_player, got_winner>>

\* line 139: self._move_history.append(GridGameMove(self._current_player, symbol, cell))
AppendMove ==
    /\ pc = "138"
    /\ move_history' =
          Append(move_history, GridGameMove(current_player, call.symbol, call.cell))
    /\ pc' = "139"
    /\ seen' = NotSeen
    /\ UNCHANGED <<field, player_count, player_to_symbol, symbol_to_player,
                   current_player, call, feedback, got_winner>>

\* lines 140-142: self._switch_to_next_player(); return Feedback.VALID
SwitchAndReturn ==
    /\ pc = "139"
    /\ SetSelf(_switch_to_next_player(Self))
    /\ feedback' = VALID
    /\ pc' = "idle"
    /\ seen' = NotSeen
    /\ UNCHANGED <<call, got_winner>>

\* the other thread reads the model's properties
Read ==
    /\ seen' = [read |-> TRUE,
                 at |-> pc,
                 winner |-> winner(Self),
                 is_game_over |-> is_game_over(Self),
                 occupied_cells |-> field.occupied_cells,
                 current_player |-> current_player]
    /\ UNCHANGED <<field, move_history, player_count, player_to_symbol,
                   symbol_to_player, current_player, call, feedback, got_winner, pc>>

NextInterleaved ==
    \/ \E symbol \in SymbolInputs, cell \in CellInputs : BeginPlaceSymbol(symbol, cell)
    \/ AppendMove
    \/ SwitchAndReturn
    \/ Read

SpecInterleaved == Init /\ [][NextInterleaved]_vars

\* ------------------------------------------------------------------ the 3 x 3 game
\* Two players on the 3 x 3 grid.  The callers offer the first player's symbol for the
\* cells of row 1 and column 1, and the second player's symbol for the four remaining
\* cells and the corner (3, 1), in any order and whoever's turn it is.
FirstPlayerCells == {Cell(1, 1), Cell(1, 2), Cell(1, 3), Cell(2, 1), Cell(3, 1)}

SecondPlayerCells == {Cell(2, 2), Cell(2, 3), Cell(3, 2), Cell(3, 3), Cell(3, 1)}

ThreeByThreeInputs ==
    {<<AllSymbols[1], c>> : c \in FirstPlayerCells}
        \cup {<<AllSymbols[2], c>> : c \in SecondPlayerCells}

InitThreeByThree ==
    LET player_symbols == SubSeq(AllSymbols, 1, 2)
        m == init_model(3, player_symbols, 2)
    IN  /\ init_error(player_symbols, 2) = ""
        /\ field = m.field
        /\ move_history = m.move_history
        /\ player_count = m.player_count
        /\ player_to_symbol = m.player_to_symbol
        /\ symbol_to_player = m.symbol_to_player
        /\ current_player = m.current_player
        /\ call = NoCall
        /\ feedback = "none"
        /\ got_winner = [raised |-> FALSE, player |-> NoPlayer]
        /\ pc = "idle"
        /\ seen = NotSeen

NextThreeByThree == \E input \in ThreeByThreeInputs : PlaceSymbol(input[1], input[2])

SpecThreeByThree == InitThreeByThree /\ [][NextThreeByThree]_vars

\* ------------------------------------------------------------------ callers that keep playing
GameOverNow == is_game_over(Self).value

\* place_symbol with arguments it accepts
ValidPlacement ==
    /\ feedback' = VALID
    /\ \E symbol \in SymbolInputs, cell \in CellInputs : PlaceSymbol(symbol, cell)

\* The callers may make any call, and keep making accepted placements for as long as
\* the game is not over: weak fairness of ValidPlacement, with its enabling condition
\* written out as the game not being over (C19 checks that the two agree).
KeepPlaying == ([]<>GameOverNow) \/ ([]<><<ValidPlacement>>_vars)

SpecKeepPlaying == Init /\ [][Next]_vars /\ KeepPlaying

\* ------------------------------------------------------------------ vocabulary of the claims
\* The lines of the grid as sets of cells, stated without the validator's generator.
RowLine(r) == {<<r, c>> : c \in 1..field.grid_size}

ColumnLine(c) == {<<r, c>> : r \in 1..field.grid_size}

BackslashLine == {<<k, k>> : k \in 1..field.grid_size}

ForwardSlashLine == {<<k, field.grid_size - k + 1>> : k \in 1..field.grid_size}

Lines ==
    {RowLine(r) : r \in 1..field.grid_size} \cup {ColumnLine(c) : c \in 1..field.grid_size}
        \cup {BackslashLine, ForwardSlashLine}

Occupied == DOMAIN field.occupied_cells

HeldBy(line, s) == \A c \in line : c \in Occupied /\ field.occupied_cells[c] = s

Held(line) == \E s \in Range(field.occupied_cells) : HeldBy(line, s)

HolderOf(line) == CHOOSE s \in Range(field.occupied_cells) : HeldBy(line, s)

SomeLineHeld == \E line \in Lines : Held(line)

BoardFull == \A r \in 1..field.grid_size : \A c \in 1..field.grid_size : <<r, c>> \in Occupied

InGrid(cell) == cell[1] \in 1..field.grid_size /\ cell[2] \in 1..field.grid_size

\* ------------------------------------------------------------------ C1
\* The code the ordered list of checks prescribes for a call in the current state.
ExpectedFeedback(symbol, cell) ==
    IF SomeLineHeld \/ BoardFull THEN GAME_OVER
    ELSE IF symbol # player_to_symbol[current_player] THEN INVALID_SYMBOL
    ELSE IF ~InGrid(cell) THEN OUT_OF_BOUNDS
    ELSE IF cell \in Occupied THEN OCCUPIED
    ELSE VALID

\* C1: in every reachable state and for every (symbol, cell), place_symbol returns the
\* code of the first check that applies, in the order GAME_OVER, INVALID_SYMBOL,
\* OUT_OF_BOUNDS, OCCUPIED, VALID; the code the last call returned is that code too.
C1_FirstApplicableCheck ==
    \A symbol \in SymbolInputs, cell \in CellInputs :
        place_symbol(Self, symbol, cell).result = ExpectedFeedback(symbol, cell)

\* C1 witness: a call with an out-of-bounds cell on a finished game returned GAME_OVER.
C1_Witness ==
    /\ call.op = "place_symbol"
    /\ feedback = GAME_OVER
    /\ ~InGrid(call.cell)
    /\ SomeLineHeld \/ BoardFull

\* ------------------------------------------------------------------ C2
\* C2: a place_symbol call that returns anything but VALID leaves the field, the move
\* history and current_player as they were.
C2_RejectionChangesNothing ==
    [][(call'.op = "place_symbol" /\ feedback' # VALID)
        => /\ field' = field
           /\ move_history' = move_history
           /\ current_player' = current_player]_vars

\* C2 witness: a wrong symbol was rejected in the middle of a game.
C2_Witness ==
    /\ call.op = "place_symbol"
    /\ feedback = INVALID_SYMBOL
    /\ move_history # <<>>

\* ------------------------------------------------------------------ C3
\* C3: a place_symbol(symbol, cell) call that returns VALID changes exactly three
\* things: the cell now holds the symbol (every other cell as before), the history has
\* the record {old current_player, symbol, cell} appended, and current_player is the
\* old player's successor in rotation; mapping, player_count and grid_size are kept.
C3_ValidPlacementEffect ==
    [][(call'.op = "place_symbol" /\ feedback' = VALID)
        => /\ DOMAIN field'.occupied_cells = Occupied \cup {call'.cell}
           /\ field'.occupied_cells[call'.cell] = call'.symbol
           /\ \A c \in Occupied \ {call'.cell} :
                 field'.occupied_cells[c] = field.occupied_cells[c]
           /\ field'.grid_size = field.grid_size
           /\ move_history' =
                 move_history \o <<[player |-> current_player, symbol |-> call'.symbol,
                                    cell |-> call'.cell]>>
           /\ current_player' = (current_player % player_count) + 1
           /\ player_count' = player_count
           /\ player_to_symbol' = player_to_symbol
           /\ symbol_to_player' = symbol_to_player]_vars

\* C3 witness: a VALID placement by the last player passed the turn back to player 1.
C3_Witness ==
    /\ call.op = "place_symbol"
    /\ feedback = VALID
    /\ Len(move_history) = player_count
    /\ current_player = 1

\* ------------------------------------------------------------------ C4
\* C4: once is_game_over is true it stays true, and every later place_symbol call
\* returns GAME_OVER and leaves the occupied cells as they are.
C4_TerminalLockout ==
    [][GameOverNow => (GameOverNow' /\ feedback' = GAME_OVER /\ field' = field)]_vars

\* C4 witness: a call on a drawn game (full field, no line held) returned GAME_OVER.
C4_Witness ==
    /\ call.op = "place_symbol"
    /\ feedback = GAME_OVER
    /\ GameOverNow
    /\ BoardFull /\ ~SomeLineHeld

\* ------------------------------------------------------------------ C5
\* C5: winner returns a player exactly when some row, column or diagonal is fully
\* occupied by one symbol, none otherwise; the player returned placed every symbol of
\* such a line.
C5_WinnerIffLineHeld ==
    LET w == winner(Self)
    IN  /\ ~w.raised
        /\ (w.player # NoPlayer) <=> SomeLineHeld
        /\ w.player # NoPlayer =>
              \E line \in Lines :
                  /\ Held(line)
                  /\ \A c \in line : \E i \in DOMAIN move_history :
                        move_history[i] =
                            [player |-> w.player, symbol |-> HolderOf(line), cell |-> c]

\* C5 witness: the forward-slash diagonal, and no other line, is held and has a winner.
C5_Witness ==
    /\ field.grid_size > 1
    /\ Held(ForwardSlashLine)
    /\ \A line \in Lines \ {ForwardSlashLine} : ~Held(line)
    /\ winner(Self).player \in 1..player_count

\* ------------------------------------------------------------------ C6
\* C6: is_game_over is true exactly when winner is not none or the field has no
\* unoccupied cell; a full field with no line held has no winner and is over.
C6_GameOverIffWinnerOrFull ==
    /\ is_game_over(Self).value <=> (winner(Self).player # NoPlayer \/ BoardFull)
    /\ (BoardFull /\ ~SomeLineHeld) =>
          (winner(Self).player = NoPlayer /\ is_game_over(Self).value)

\* C6 witness: a drawn game on the 2 x 2 grid.
C6_Witness ==
    /\ BoardFull
    /\ ~SomeLineHeld
    /\ Len(move_history) = field.grid_size * field.grid_size

\* ------------------------------------------------------------------ C7
\* C7: the assertion of get_winner is unreachable: winner and is_game_over never
\* raise, and place_symbol returns a Feedback code for every argument.
C7_NeverRaises ==
    /\ ~winner(Self).raised
    /\ ~is_game_over(Self).raised
    /\ feedback \in Feedback \cup {"none"}
    /\ \A symbol \in SymbolInputs, cell \in CellInputs :
          place_symbol(Self, symbol, cell).result \in Feedback

\* C7 witness: a line is held, so get_winner went through the history, and the call
\* that followed returned.
C7_Witness ==
    /\ SomeLineHeld
    /\ call.op = "place_symbol"
    /\ feedback = GAME_OVER
    /\ winner(Self).player \in 1..player_count

\* ------------------------------------------------------------------ C8
\* The lines in the order the claim enumerates them.
LineAt(i) ==
    IF i <= field.grid_size THEN RowLine(i)
    ELSE IF i <= 2 * field.grid_size THEN ColumnLine(i - field.grid_size)
    ELSE IF i = 2 * field.grid_size + 1 THEN BackslashLine
    ELSE ForwardSlashLine

HeldIndexes == {i \in 1..(2 * field.grid_size + 2) : Held(LineAt(i))}

FirstHeldLine == LineAt(CHOOSE i \in HeldIndexes : \A j \in HeldIndexes : i <= j)

\* C8: when two or more lines are held, get_winner reports the owner of the first of
\* them in the order rows, columns, backslash, forward slash.
C8_FirstLineWins ==
    Cardinality(HeldIndexes) >= 2 =>
        /\ get_winner(field, move_history) =
              [raised |-> FALSE, player |-> symbol_to_player[HolderOf(FirstHeldLine)]]
        /\ call.op = "get_winner" =>
              got_winner.player = symbol_to_player[HolderOf(FirstHeldLine)]

\* C8 witness: get_winner was asked on a field where two lines are held by different
\* symbols.
C8_Witness ==
    /\ call.op = "get_winner"
    /\ \E i, j \in HeldIndexes :
          i < j /\ HolderOf(LineAt(i)) # HolderOf(LineAt(j))
    /\ got_winner.player = symbol_to_player[HolderOf(FirstHeldLine)]

\* ------------------------------------------------------------------ C9
\* C9 as stated: place_symbol on an occupied cell returns OCCUPIED whatever the symbol
\* and whoever the current player.
C9_AlwaysOccupied ==
    \A symbol \in SymbolInputs, cell \in Occupied :
        place_symbol(Self, symbol, cell).result = OCCUPIED

\* C9 amended: place_symbol on an occupied cell never returns VALID and changes
\* nothing; it returns GAME_OVER when the game is over, else INVALID_SYMBOL when the
\* symbol is not the current player's, else OCCUPIED.
C9_OccupiedNeverPlaced ==
    \A symbol \in SymbolInputs, cell \in Occupied :
        LET r == place_symbol(Self, symbol, cell)
        IN  /\ r.self = Self
            /\ r.result =
                  IF SomeLineHeld \/ BoardFull THEN GAME_OVER
                  ELSE IF symbol # player_to_symbol[current_player] THEN INVALID_SYMBOL
                  ELSE OCCUPIED

\* C9 witness: the current player's own symbol on an occupied cell was answered OCCUPIED.
C9_Witness ==
    /\ call.op = "place_symbol"
    /\ feedback = OCCUPIED
    /\ call.cell \in Occupied
    /\ call.symbol = player_to_symbol[current_player]

\* ------------------------------------------------------------------ C10
\* C10: after N < player_count VALID placements on a fresh model, with no win,
\* current_player = 1 + N mod player_count; next_player is current_player + 1,
\* wrapping to 1 after player_count.
C10_TurnRotation ==
    /\ (Len(move_history) < player_count /\ ~SomeLineHeld) =>
          current_player = 1 + (Len(move_history) % player_count)
    /\ next_player(Self) = (current_player % player_count) + 1

\* C10 witness: three players, two placements, no win: the last player is to move and
\* player 1 is next.
C10_Witness ==
    /\ player_count = 3
    /\ Len(move_history) = 2
    /\ ~SomeLineHeld
    /\ feedback = VALID
    /\ current_player = 3
    /\ next_player(Self) = 1

\* ------------------------------------------------------------------ C11
BadArguments ==
    \/ call.player_count <= 1
    \/ \E i, j \in DOMAIN call.player_symbols :
          i # j /\ call.player_symbols[i] = call.player_symbols[j]
    \/ Len(call.player_symbols) # call.player_count

\* C11: construction fails with a configuration error, and yields no model, exactly
\* when player_count <= 1, or player_symbols has duplicates, or its length differs from
\* player_count; otherwise it yields an empty field, an empty history, players
\* 1..player_count mapped to the symbols in the order given, and current_player = 1.
C11_ConstructionContract ==
    (call.op = "__init__" /\ feedback # "pending") =>
        /\ feedback = ValueError <=> BadArguments
        /\ BadArguments => Self = NoModel
        /\ ~BadArguments =>
              /\ feedback = "constructed"
              /\ field = [grid_size |-> call.grid_size, occupied_cells |-> <<>>]
              /\ move_history = <<>>
              /\ player_count = call.player_count
              /\ DOMAIN player_to_symbol = 1..call.player_count
              /\ \A k \in 1..call.player_count :
                    /\ player_to_symbol[k] = call.player_symbols[k]
                    /\ symbol_to_player[call.player_symbols[k]] = k
              /\ DOMAIN symbol_to_player = Range(call.player_symbols)
              /\ current_player = 1

\* C11 witness: two or more players and distinct symbols, but one symbol too many:
\* the constructor raised.
C11_Witness ==
    /\ call.op = "__init__"
    /\ feedback = ValueError
    /\ call.player_count >= 2
    /\ Cardinality(Range(call.player_symbols)) = Len(call.player_symbols)
    /\ Len(call.player_symbols) = call.player_count + 1

\* ------------------------------------------------------------------ C12
\* C12: the length of move_history is the number of occupied cells; the cells of the
\* history are pairwise distinct, are exactly the occupied cells, and each holds the
\* symbol recorded for it.
C12_HistoryMatchesField ==
    /\ Len(move_history) = Cardinality(Occupied)
    /\ \A i, j \in DOMAIN move_history :
          i # j => move_history[i].cell # move_history[j].cell
    /\ {move_history[i].cell : i \in DOMAIN move_history} = Occupied
    /\ \A i \in DOMAIN move_history :
          field.occupied_cells[move_history[i].cell] = move_history[i].symbol

\* C12 witness: three placements were made and a fourth call was turned down.
C12_Witness ==
    /\ Len(move_history) = 3
    /\ Cardinality(Occupied) = 3
    /\ call.op = "place_symbol"
    /\ feedback \in {OCCUPIED, GAME_OVER}

\* ------------------------------------------------------------------ C13
\* C13: current_player is an integer in [1, player_count].
C13_CurrentPlayerInRange ==
    current_player \in 1..player_count

\* C13 witness: with two players, the second placement handed the turn back to
\* player 1.
C13_Witness ==
    /\ player_count = 2
    /\ Len(move_history) = 2
    /\ call.op = "place_symbol"
    /\ feedback = VALID
    /\ current_player = 1

\* ------------------------------------------------------------------ C14
\* C14: a cell that holds a symbol holds that same symbol in every later state.
C14_CellsKeepTheirSymbol ==
    [][\A c \in Occupied :
          /\ c \in DOMAIN field'.occupied_cells
          /\ field'.occupied_cells[c] = field.occupied_cells[c]]_vars

\* C14 witness: another symbol was offered for an occupied cell, and the cell still
\* holds the symbol placed first.
C14_Witness ==
    /\ call.op = "place_symbol"
    /\ call.cell \in Occupied
    /\ call.symbol \in Range(player_to_symbol)
    /\ field.occupied_cells[call.cell] # call.symbol
    /\ feedback # VALID
    /\ \E i \in DOMAIN move_history :
          /\ move_history[i].cell = call.cell
          /\ move_history[i].symbol = field.occupied_cells[call.cell]

\* ------------------------------------------------------------------ C15
\* The history scanned oldest move first, for the first held group.
RECURSIVE forward_scan(_, _, _)
forward_scan(j, group, basis) ==
    IF j > Len(move_history) THEN NoPlayer
    ELSE IF move_history[j].cell \in group /\ move_history[j].symbol = basis
         THEN move_history[j].player
         ELSE forward_scan(j + 1, group, basis)

\* C15: whenever a line is held, the winner found by the reverse scan of the history
\* is the player the construction-time mapping gives for the winning symbol, and a
\* forward scan finds the same player.
C15_ScanEqualsLookup ==
    SomeLineHeld =>
        /\ winner(Self) =
              [raised |-> FALSE, player |-> symbol_to_player[HolderOf(FirstHeldLine)]]
        /\ forward_scan(1, FirstHeldLine, HolderOf(FirstHeldLine)) = winner(Self).player

\* C15 witness: a line of two cells is held, so the scans start from different moves
\* of the line.
C15_Witness ==
    /\ SomeLineHeld
    /\ Cardinality(FirstHeldLine) = 2
    /\ winner(Self).player = symbol_to_player[HolderOf(FirstHeldLine)]
    /\ \E i, j \in DOMAIN move_history :
          /\ i < j
          /\ move_history[i].cell \in FirstHeldLine
          /\ move_history[j].cell \in FirstHeldLine

\* ------------------------------------------------------------------ C16
\* What a read shows of a state between two calls: no assertion failure, and the
\* player to move is the one whose turn follows the placements on the field.
SeenBetweenCalls ==
    /\ ~seen.winner.raised
    /\ ~seen.is_game_over.raised
    /\ seen.current_player = (Cardinality(DOMAIN seen.occupied_cells) % player_count) + 1

\* C16 as stated: no read, wherever it falls relative to a place_symbol call, is given
\* the field with the new symbol while the move is not yet recorded or the turn not
\* yet passed on.
C16_NoReadMidCall ==
    seen.read => SeenBetweenCalls

\* C16 amended: a read made while no place_symbol call is in progress is never given
\* such a state; place_symbol takes no lock, so only reads serialised with the calls
\* are covered.
C16_SerialisedReadsConsistent ==
    (seen.read /\ seen.at = "idle") => SeenBetweenCalls

\* C16 witness: a read right after an accepted call returned showed the new symbol and
\* the next player.
C16_Witness ==
    /\ seen.read
    /\ seen.at = "idle"
    /\ call.op = "place_symbol"
    /\ feedback = VALID
    /\ call.cell \in DOMAIN seen.occupied_cells
    /\ seen.current_player # symbol_to_player[call.symbol]

\* ------------------------------------------------------------------ C17
\* C17: whenever winner is not none, it is the player of the last entry of
\* move_history, and current_player is the player after the winner in rotation.
C17_WinnerMovedLast ==
    winner(Self).player # NoPlayer =>
        /\ move_history # <<>>
        /\ winner(Self).player = move_history[Len(move_history)].player
        /\ current_player = (winner(Self).player % player_count) + 1

\* C17 witness: the third placement of a two-player game completed a line.
C17_Witness ==
    /\ player_count = 2
    /\ Len(move_history) = 3
    /\ call.op = "place_symbol"
    /\ feedback = VALID
    /\ winner(Self).player = 1
    /\ current_player = 2

\* ------------------------------------------------------------------ C18
\* The groups of the validator that are fully occupied by one symbol.
HeldGroups ==
    {i \in DOMAIN _get_groups(field) :
        /\ get_symbol_at(field, _get_groups(field)[i][1]) # None
        /\ are_all_equal_to_basis(field, get_symbol_at(field, _get_groups(field)[i][1]),
                                  _get_groups(field)[i])}

\* C18: all lines held by a single symbol hold the same symbol, and whichever held
\* group an enumeration meets first, the history scan for it gives the value of winner.
C18_OneSymbolHoldsLines ==
    /\ \A l1, l2 \in Lines : (Held(l1) /\ Held(l2)) => HolderOf(l1) = HolderOf(l2)
    /\ \A i \in HeldGroups :
          scan_history(move_history, Len(move_history), _get_groups(field)[i],
                       get_symbol_at(field, _get_groups(field)[i][1])) = winner(Self)

\* C18 witness: the ninth placement completed row 1 and column 1 together.
C18_Witness ==
    /\ call.op = "place_symbol"
    /\ feedback = VALID
    /\ Held(RowLine(1))
    /\ Held(ColumnLine(1))
    /\ Len(move_history) = 9
    /\ winner(Self).player = 1

\* ------------------------------------------------------------------ C19
\* C19: never more than grid_size * grid_size placements are accepted; while the game
\* is not over some (symbol, cell) would be accepted; and callers that keep making
\* accepted placements bring the game to is_game_over.
C19_GameTerminates ==
    /\ [](Len(move_history) <= field.grid_size * field.grid_size)
    /\ [](~GameOverNow =>
            \E symbol \in SymbolInputs, cell \in CellInputs :
                place_symbol(Self, symbol, cell).result = VALID)
    /\ <>GameOverNow

\* C19 witness: the game ended with every cell of the 2 x 2 grid placed.
C19_Witness ==
    /\ GameOverNow
    /\ field.grid_size = 2
    /\ Len(move_history) = field.grid_size * field.grid_size
    /\ feedback = VALID

\* ------------------------------------------------------------------ C20
\* C20: current_player is (len(move_history) mod player_count) + 1, the k-th move of
\* move_history was made by player ((k - 1) mod player_count) + 1 with the symbol that
\* player was given at construction, and a rejected placement leaves the turn alone.
C20_TurnFollowsHistory ==
    /\ current_player = (Len(move_history) % player_count) + 1
    /\ \A k \in 1..Len(move_history) :
          /\ move_history[k].player = ((k - 1) % player_count) + 1
          /\ move_history[k].symbol = player_to_symbol[move_history[k].player]

\* C20 witness: the turn has wrapped round to the second player, and the last call
\* was a rejected placement.
C20_Witness ==
    /\ call.op = "place_symbol"
    /\ feedback # VALID
    /\ Len(move_history) = player_count + 1
    /\ current_player = 2

====
